---- MODULE Spec2Model ----
(***************************************************************************)
(* Model of src/function_app.py: the timer-triggered producer              *)
(* generate_sensor_readings and the change-triggered consumer              *)
(* analyse_sensor_readings, coupled only through one SQL table.            *)
(*                                                                         *)
(* Store semantics assumed (pyodbc + SQL Server):                          *)
(*  - pyodbc.connect() opens with autocommit off: statements of one        *)
(*    connection are invisible to other connections until conn.commit();   *)
(*    an invocation that ends without commit loses its uncommitted work.   *)
(*  - every statement reads the latest committed state.                    *)
(*  - CREATE TABLE on an existing table raises an error; a CREATE TABLE    *)
(*    waits while another connection holds an uncommitted CREATE of the    *)
(*    same table.                                                          *)
(*  - IDENTITY values are handed out at insert time and are not given      *)
(*    back on rollback.                                                    *)
(*  - the insert loop touches only the invocation's own uncommitted rows,  *)
(*    so it is one step, with the row at which it may fail as an input.    *)
(***************************************************************************)
EXTENDS Integers, Sequences, FiniteSets, TLC

\* ------------------------------------------------------------------ bounds
MaxGen == 2
MaxAgg == 1
MaxSeed == 1
MaxStoredSeed == 2
MaxFailRow == 1
MaxBatches == 3

Gens == 1..MaxGen
Aggs == 1..MaxAgg
Seeds == 0..MaxSeed

\* ------------------------------------------------------- program constants
num_sensors == 20

Limits ==
  [temp |-> <<8, 15>>, wind_speed |-> <<15, 25>>,
   rel_humidity |-> <<40, 70>>, co2 |-> <<500, 1500>>]

data_points == <<"temp", "wind_speed", "co2", "rel_humidity">>

\* the schema statements and their commits, counted per generator invocation
GenOps == {"create", "commit_create", "enable", "commit_enable"}

VARIABLES
  tbl,        \* committed table lifecycle: NonExistent, Created, TrackingEnabled
  rows,       \* committed rows of the table, in insertion order
  nextId,     \* next IDENTITY(1,1) value
  gpc,        \* generator invocation -> position
  readings,   \* generator invocation -> its list `readings`
  pending,    \* generator invocation -> rows inserted, not yet committed
  gconn,      \* generator invocation -> "none" | "open" | "closed"
  gops,       \* generator invocation -> schema operation -> times executed
  gerr,       \* generator invocation -> why it failed ("none" while it has not)
  overlapped, \* some generator invocation started while another was running
  missed,     \* the generator invocations that found the table missing, in order
  apc,        \* aggregator invocation -> position
  sensors_in_use, \* aggregator invocation -> its list `sensors_in_use`
  stats,      \* aggregator invocation -> its dict `stats`
  qi,         \* aggregator invocation -> <<sensor index, data point index>>
  aconn,      \* aggregator invocation -> "none" | "open" | "closed"
  asked,      \* aggregator invocation -> the kinds of statement it has issued
  report      \* aggregator invocation -> <<>> or <<the stats it logged>>

gvars == <<gpc, readings, pending, gconn, gops, gerr, overlapped, missed>>
avars == <<apc, sensors_in_use, stats, qi, aconn, asked, report>>
svars == <<tbl, rows, nextId>>
vars == <<tbl, rows, nextId, gpc, readings, pending, gconn, gops, gerr,
          overlapped, missed, apc, sensors_in_use, stats, qi, aconn, asked, report>>

\* ---------------------------------------------------------- random draws
\* Outcome of the generator's n-way uniform draw for reading i, draw k of the
\* reading, under generator state `seed`: some value of 0..n-1.  The family
\* is a bounded sample of the outcomes: seed 0 all-lowest, seed 1 all-highest,
\* larger seeds mixed.  Running invocations draw seeds 0..MaxSeed; the batches
\* of a table given as initial content come from seeds 0..MaxStoredSeed.
randbelow(n, seed, i, k) ==
  IF seed = 0 THEN 0
  ELSE IF seed = 1 THEN n - 1
  ELSE (seed * i + k + 4) % n

\* random.randrange(start, stop): start inclusive, stop exclusive
randrange(start, stop, seed, i, k) ==
  start + randbelow(stop - start, seed, i, k)

\* variant: the exclusive upper limit taken one too far
StopOf_OneTooFar(hi) == hi + 2

\* the upper limit passed to randrange: "max exclusive (hence the +1)"
StopOf(hi) == hi + 1

Draw(metric, k, seed, i) ==
  randrange(Limits[metric][1], StopOf(Limits[metric][2]), seed, i, k)

\* the dict built for sensor i
Reading(seed, i) ==
  [sensor_id |-> i,
   temp |-> Draw("temp", 0, seed, i),
   wind_speed |-> Draw("wind_speed", 1, seed, i),
   rel_humidity |-> Draw("rel_humidity", 2, seed, i),
   co2 |-> Draw("co2", 3, seed, i)]

\* for i in range(num_sensors): readings.append(reading)
GenerateReadings(seed) == [j \in 1..num_sensors |-> Reading(seed, j - 1)]

\* ------------------------------------------------------------------ store
\* one "insert into ...(sensor_id, temp, wind_speed, rel_humidity, co2)
\* values (?,?,?,?,?)": the row the store builds, id from IDENTITY(1,1)
InsertRow(r, id) ==
  [id |-> id, sensor_id |-> r.sensor_id, temp |-> r.temp,
   wind_speed |-> r.wind_speed, rel_humidity |-> r.rel_humidity,
   co2 |-> r.co2]

\* the first n readings of rs inserted, ids first, first+1, ...
InsertAll(rs, n, first) == [j \in 1..n |-> InsertRow(rs[j], first + j - 1)]

\* variant: the existence check never finds the table
TableExists_Never(t) == FALSE

\* cur.tables(table=table_name, tableType="TABLE").fetchone() is truthy
\* variant: the metadata lookup finds a table whatever the store holds
TableExists_Always(t) == TRUE

TableExists(t) == t # "NonExistent"

\* variant: table creation that enables tracking in the same transaction
AfterCreateCommit_Tracked(t) == "TrackingEnabled"

\* table state after the commit that follows CREATE TABLE
AfterCreateCommit(t) == IF t = "NonExistent" THEN "Created" ELSE t

\* table state after the commit that follows ENABLE CHANGE_TRACKING
AfterEnableCommit(t) == IF t = "Created" THEN "TrackingEnabled" ELSE t

\* variant: a creation statement that goes through on an existing table
CreateRaises_Never(t) == FALSE

\* CREATE TABLE raises when the table is already there
CreateRaises(t) == t # "NonExistent"

\* ENABLE CHANGE_TRACKING raises when tracking is already enabled
EnableRaises(t) == t = "TrackingEnabled"

\* variant: the batch replaces the table content
CommitBatch_Overwrite(committed, pend) == pend

\* committed rows after the final conn.commit() of a batch
CommitBatch(committed, pend) == committed \o pend

\* variant: a connection with autocommit on, every insert committed at once
AbandonBatch_Autocommit(committed, pend) == committed \o pend

\* committed rows after an invocation ended with pend inserted and no commit
AbandonBatch(committed, pend) == committed

\* ------------------------------------------------------------ aggregation
RECURSIVE SeqSum(_)
SeqSum(s) == IF s = <<>> THEN 0 ELSE Head(s) + SeqSum(Tail(s))

RECURSIVE SeqMin(_)
SeqMin(s) ==
  IF Len(s) = 1 THEN s[1]
  ELSE LET m == SeqMin(Tail(s)) IN IF s[1] < m THEN s[1] ELSE m

RECURSIVE SeqMax(_)
SeqMax(s) ==
  IF Len(s) = 1 THEN s[1]
  ELSE LET m == SeqMax(Tail(s)) IN IF s[1] > m THEN s[1] ELSE m

\* the NULL an aggregate over no rows yields
Null == -1

\* variant: the aggregate query without its WHERE clause
Where_AllRows(table, sensor) == table

\* WHERE (sensor_id = {sensor})
Where(table, sensor) == SelectSeq(table, LAMBDA r : r.sensor_id = sensor)

\* the column {dat} of the selected rows
Column(sel, dat) == [j \in 1..Len(sel) |-> sel[j][dat]]

\* variant: the average rounded to the nearest integer
SqlAvg_Rounded(col) == (2 * SeqSum(col) + Len(col)) \div (2 * Len(col))

\* AVG over an int column: int result, the sum divided by the count, truncated
SqlAvg(col) == SeqSum(col) \div Len(col)

\* SELECT MIN({dat}), MAX({dat}), AVG({dat}) FROM table WHERE (sensor_id = sensor)
\* parsed into the dict data_point_stats
query_aggregate(table, sensor, dat) ==
  LET col == Column(Where(table, sensor), dat) IN
  IF col = <<>>
  THEN [min |-> Null, max |-> Null, average |-> Null]
  ELSE [min |-> SeqMin(col), max |-> SeqMax(col), average |-> SqlAvg(col)]

\* SELECT DISTINCT sensor_id FROM table ORDER BY sensor_id ASC
RECURSIVE SortedSeq(_)
SortedSeq(S) ==
  IF S = {} THEN <<>>
  ELSE LET m == CHOOSE x \in S : \A y \in S : x <= y
       IN <<m>> \o SortedSeq(S \ {m})

\* variant: the fixed fleet 0..num_sensors-1 instead of the ids found in the table
DistinctSensorIds_Fleet(table) == [j \in 1..num_sensors |-> j - 1]

\* variant: SELECT sensor_id FROM table, without DISTINCT and ORDER BY
DistinctSensorIds_EveryRow(table) == [j \in 1..Len(table) |-> table[j].sensor_id]

DistinctSensorIds(table) == SortedSeq({table[j].sensor_id : j \in 1..Len(table)})


\* ------------------------------------------------------------------- Init
Init ==
  /\ tbl = "NonExistent"
  /\ rows = <<>>
  /\ nextId = 1
  /\ gpc = [g \in Gens |-> "idle"]
  /\ readings = [g \in Gens |-> <<>>]
  /\ pending = [g \in Gens |-> <<>>]
  /\ gconn = [g \in Gens |-> "none"]
  /\ gops = [g \in Gens |-> [o \in GenOps |-> 0]]
  /\ gerr = [g \in Gens |-> "none"]
  /\ overlapped = FALSE
  /\ missed = <<>>
  /\ apc = [a \in Aggs |-> "idle"]
  /\ sensors_in_use = [a \in Aggs |-> <<>>]
  /\ stats = [a \in Aggs |-> <<>>]
  /\ qi = [a \in Aggs |-> <<1, 1>>]
  /\ aconn = [a \in Aggs |-> "none"]
  /\ asked = [a \in Aggs |-> {}]
  /\ report = [a \in Aggs |-> <<>>]

\* ------------------------------------------------- generate_sensor_readings
GenRunning(g) == gpc[g] \notin {"idle", "done", "failed"}

Attempt(ops, g, o) == [ops EXCEPT ![g][o] = @ + 1]

\* the timer fires: the invocation builds `readings` and logs their number
GenStart(g) ==
  /\ gpc[g] = "idle"
  /\ \A h \in Gens : h < g => gpc[h] # "idle"
  /\ \E seed \in Seeds : readings' = [readings EXCEPT ![g] = GenerateReadings(seed)]
  /\ gpc' = [gpc EXCEPT ![g] = "generated"]
  /\ overlapped' = (overlapped \/ \E h \in Gens : GenRunning(h))
  /\ UNCHANGED <<svars, pending, gconn, gops, gerr, missed, avars>>

\* conn = pyodbc.connect(sql_connection_string); cur = conn.cursor()
GenConnect(g) ==
  /\ gpc[g] = "generated"
  /\ gconn' = [gconn EXCEPT ![g] = "open"]
  /\ gpc' = [gpc EXCEPT ![g] = "connected"]
  /\ UNCHANGED <<svars, readings, pending, gops, gerr, overlapped, missed, avars>>

\* if not cur.tables(...).fetchone(): ... else: log "Table exists."
GenCheckTable(g) ==
  /\ gpc[g] = "connected"
  /\ gpc' = [gpc EXCEPT ![g] = IF TableExists(tbl) THEN "insert" ELSE "create"]
  /\ missed' = IF TableExists(tbl) THEN missed ELSE Append(missed, g)
  /\ UNCHANGED <<svars, readings, pending, gconn, gops, gerr, overlapped, avars>>

\* cur.execute(create_table_sql): waits for another connection's uncommitted
\* CREATE; raises (uncaught) when the table is already there
GenCreateTable(g) ==
  /\ gpc[g] = "create"
  /\ \A h \in Gens : gpc[h] # "commit_create"
  /\ gops' = Attempt(gops, g, "create")
  /\ IF CreateRaises(tbl)
     THEN /\ gpc' = [gpc EXCEPT ![g] = "failed"]
          /\ gerr' = [gerr EXCEPT ![g] = "already_exists"]
          /\ readings' = [readings EXCEPT ![g] = <<>>]
     ELSE /\ gpc' = [gpc EXCEPT ![g] = "commit_create"]
          /\ UNCHANGED <<gerr, readings>>
  /\ UNCHANGED <<svars, pending, gconn, overlapped, missed, avars>>

\* conn.commit() after CREATE TABLE
GenCommitCreate(g) ==
  /\ gpc[g] = "commit_create"
  /\ tbl' = AfterCreateCommit(tbl)
  /\ gops' = Attempt(gops, g, "commit_create")
  /\ gpc' = [gpc EXCEPT ![g] = "enable"]
  /\ UNCHANGED <<rows, nextId, readings, pending, gconn, gerr, overlapped, missed, avars>>

\* cur.execute(enable_tracking_sql): raises (uncaught) when already enabled
GenEnableTracking(g) ==
  /\ gpc[g] = "enable"
  /\ gops' = Attempt(gops, g, "enable")
  /\ IF EnableRaises(tbl)
     THEN /\ gpc' = [gpc EXCEPT ![g] = "failed"]
          /\ gerr' = [gerr EXCEPT ![g] = "already_exists"]
          /\ readings' = [readings EXCEPT ![g] = <<>>]
     ELSE /\ gpc' = [gpc EXCEPT ![g] = "commit_enable"]
          /\ UNCHANGED <<gerr, readings>>
  /\ UNCHANGED <<svars, pending, gconn, overlapped, missed, avars>>

\* conn.commit() after ENABLE CHANGE_TRACKING; log "Table created ..."
GenCommitEnable(g) ==
  /\ gpc[g] = "commit_enable"
  /\ tbl' = AfterEnableCommit(tbl)
  /\ gops' = Attempt(gops, g, "commit_enable")
  /\ gpc' = [gpc EXCEPT ![g] = "insert"]
  /\ UNCHANGED <<rows, nextId, readings, pending, gconn, gerr, overlapped, missed, avars>>

\* for r in readings: cur.execute("insert into ...", ...), every insert succeeding
GenInsert(g) ==
  /\ gpc[g] = "insert"
  /\ pending' = [pending EXCEPT ![g] = InsertAll(readings[g], Len(readings[g]), nextId)]
  /\ nextId' = nextId + Len(readings[g])
  /\ gpc' = [gpc EXCEPT ![g] = "commit_insert"]
  /\ UNCHANGED <<tbl, rows, readings, gconn, gops, gerr, overlapped, missed, avars>>

\* the insert loop with n inserts done and the next one raising: the
\* invocation ends without commit
GenInsertFail(g) ==
  /\ gpc[g] = "insert"
  /\ \E n \in 1..MaxFailRow :
       /\ n < Len(readings[g])
       /\ rows' = AbandonBatch(rows, InsertAll(readings[g], n, nextId))
       /\ nextId' = nextId + n
  /\ gpc' = [gpc EXCEPT ![g] = "failed"]
  /\ gerr' = [gerr EXCEPT ![g] = "insert_error"]
  /\ readings' = [readings EXCEPT ![g] = <<>>]
  /\ UNCHANGED <<tbl, pending, gconn, gops, overlapped, missed, avars>>

\* conn.commit() after the insert loop
GenCommitInsert(g) ==
  /\ gpc[g] = "commit_insert"
  /\ rows' = CommitBatch(rows, pending[g])
  /\ pending' = [pending EXCEPT ![g] = <<>>]
  /\ gpc' = [gpc EXCEPT ![g] = "close"]
  /\ UNCHANGED <<tbl, nextId, readings, gconn, gops, gerr, overlapped, missed, avars>>

\* conn.close(); return
GenClose(g) ==
  /\ gpc[g] = "close"
  /\ gconn' = [gconn EXCEPT ![g] = "closed"]
  /\ readings' = [readings EXCEPT ![g] = <<>>]
  /\ gpc' = [gpc EXCEPT ![g] = "done"]
  /\ UNCHANGED <<svars, pending, gops, gerr, overlapped, missed, avars>>

\* variant: an except-block that rolls back and starts over at the table check
GenFail_Retry(g) ==
  /\ GenRunning(g)
  /\ gpc[g] # "generated"
  /\ rows' = AbandonBatch(rows, pending[g])
  /\ pending' = [pending EXCEPT ![g] = <<>>]
  /\ gpc' = [gpc EXCEPT ![g] = "connected"]
  /\ gerr' = [gerr EXCEPT ![g] = "error"]
  /\ UNCHANGED <<tbl, nextId, readings, gconn, gops, overlapped, missed, avars>>

\* the store operation about to run raises (connectivity), or the host cancels
\* the invocation: nothing catches it, the invocation ends, uncommitted work
\* is lost
GenFail(g) ==
  /\ GenRunning(g)
  /\ rows' = AbandonBatch(rows, pending[g])
  /\ pending' = [pending EXCEPT ![g] = <<>>]
  /\ readings' = [readings EXCEPT ![g] = <<>>]
  /\ gpc' = [gpc EXCEPT ![g] = "failed"]
  /\ gerr' = [gerr EXCEPT ![g] = "error"]
  /\ UNCHANGED <<tbl, nextId, gconn, gops, overlapped, missed, avars>>


\* -------------------------------------------------- analyse_sensor_readings
AnRunning(a) == apc[a] \notin {"idle", "done", "failed"}

Issue(iss, a, kind) == [iss EXCEPT ![a] = @ \cup {kind}]

\* the change notification arrives: conn = pyodbc.connect(...); cur = conn.cursor()
AnStart(a) ==
  /\ apc[a] = "idle"
  /\ \A b \in Aggs : b < a => apc[b] # "idle"
  /\ aconn' = [aconn EXCEPT ![a] = "open"]
  /\ apc' = [apc EXCEPT ![a] = "connected"]
  /\ UNCHANGED <<svars, gvars, sensors_in_use, stats, qi, asked, report>>

\* variant: the early exit without its return
AnCheckTable_NoReturn(a) ==
  /\ apc[a] = "connected"
  /\ IF TableExists(tbl)
     THEN UNCHANGED aconn
     ELSE aconn' = [aconn EXCEPT ![a] = "closed"]
  /\ asked' = Issue(asked, a, "tables")
  /\ apc' = [apc EXCEPT ![a] = "ids"]
  /\ UNCHANGED <<svars, gvars, sensors_in_use, stats, qi, report>>

\* if not cur.tables(...).fetchone(): conn.close(); log; return
AnCheckTable(a) ==
  /\ apc[a] = "connected"
  /\ IF TableExists(tbl)
     THEN /\ apc' = [apc EXCEPT ![a] = "ids"]
          /\ UNCHANGED aconn
     ELSE /\ aconn' = [aconn EXCEPT ![a] = "closed"]
          /\ apc' = [apc EXCEPT ![a] = "done"]
  /\ asked' = Issue(asked, a, "tables")
  /\ UNCHANGED <<svars, gvars, sensors_in_use, stats, qi, report>>

\* cur.execute(get_sensor_ids_sql); sensors_in_use filled from fetchall();
\* stats = {}
AnQuerySensorIds(a) ==
  /\ apc[a] = "ids"
  /\ asked' = Issue(asked, a, "ids")
  /\ sensors_in_use' = [sensors_in_use EXCEPT ![a] = DistinctSensorIds(rows)]
  /\ stats' = [stats EXCEPT ![a] = <<>>]
  /\ qi' = [qi EXCEPT ![a] = <<1, 1>>]
  /\ apc' = [apc EXCEPT ![a] = IF DistinctSensorIds(rows) = <<>> THEN "commit" ELSE "stats"]
  /\ UNCHANGED <<svars, gvars, aconn, report>>

\* stats[sensor] = {} at the first data point, then stats[sensor][dat] = ...
StoreStat(st, sensor, dat, res) ==
  IF sensor \in DOMAIN st
  THEN [st EXCEPT ![sensor] = (dat :> res) @@ @]
  ELSE (sensor :> (dat :> res)) @@ st

\* variant: logging.info(stats) inside the inner loop, after each data point
AnQueryStats_LogsEach(a) ==
  /\ apc[a] = "stats"
  /\ LET si == qi[a][1]
         di == qi[a][2]
         sensor == sensors_in_use[a][si]
         dat == data_points[di]
     IN /\ stats' = [stats EXCEPT ![a] =
                       StoreStat(@, sensor, dat, query_aggregate(rows, sensor, dat))]
        /\ IF di < Len(data_points)
           THEN /\ qi' = [qi EXCEPT ![a] = <<si, di + 1>>]
                /\ UNCHANGED apc
           ELSE IF si < Len(sensors_in_use[a])
           THEN /\ qi' = [qi EXCEPT ![a] = <<si + 1, 1>>]
                /\ UNCHANGED apc
           ELSE /\ apc' = [apc EXCEPT ![a] = "commit"]
                /\ UNCHANGED qi
  /\ report' = [report EXCEPT ![a] = <<stats'[a]>>]
  /\ asked' = Issue(asked, a, "aggregate")
  /\ UNCHANGED <<svars, gvars, sensors_in_use, aconn>>

\* one pass of the inner loop body: the aggregate query for the current
\* sensor and data point, its result stored in stats
AnQueryStats(a) ==
  /\ apc[a] = "stats"
  /\ LET si == qi[a][1]
         di == qi[a][2]
         sensor == sensors_in_use[a][si]
         dat == data_points[di]
     IN /\ stats' = [stats EXCEPT ![a] =
                       StoreStat(@, sensor, dat, query_aggregate(rows, sensor, dat))]
        /\ IF di < Len(data_points)
           THEN /\ qi' = [qi EXCEPT ![a] = <<si, di + 1>>]
                /\ UNCHANGED apc
           ELSE IF si < Len(sensors_in_use[a])
           THEN /\ qi' = [qi EXCEPT ![a] = <<si + 1, 1>>]
                /\ UNCHANGED apc
           ELSE /\ apc' = [apc EXCEPT ![a] = "commit"]
                /\ UNCHANGED qi
  /\ asked' = Issue(asked, a, "aggregate")
  /\ UNCHANGED <<svars, gvars, sensors_in_use, aconn, report>>

\* conn.commit(); conn.close(); log "Stats Created."; logging.info(stats)
AnFinish(a) ==
  /\ apc[a] = "commit"
  /\ aconn' = [aconn EXCEPT ![a] = "closed"]
  /\ report' = [report EXCEPT ![a] = <<stats[a]>>]
  /\ apc' = [apc EXCEPT ![a] = "done"]
  /\ UNCHANGED <<svars, gvars, sensors_in_use, stats, qi, asked>>

\* the store operation about to run raises, or the host cancels the
\* invocation: nothing catches it, the invocation ends
AnFail(a) ==
  /\ AnRunning(a)
  /\ apc' = [apc EXCEPT ![a] = "failed"]
  /\ stats' = [stats EXCEPT ![a] = <<>>]
  /\ sensors_in_use' = [sensors_in_use EXCEPT ![a] = <<>>]
  /\ qi' = [qi EXCEPT ![a] = <<1, 1>>]
  /\ UNCHANGED <<svars, gvars, aconn, asked, report>>

\* ------------------------------------------------------------------- Next
Next ==
  \/ \E g \in Gens : GenStart(g)
  \/ \E g \in Gens : GenConnect(g)
  \/ \E g \in Gens : GenCheckTable(g)
  \/ \E g \in Gens : GenCreateTable(g)
  \/ \E g \in Gens : GenCommitCreate(g)
  \/ \E g \in Gens : GenEnableTracking(g)
  \/ \E g \in Gens : GenCommitEnable(g)
  \/ \E g \in Gens : GenInsert(g)
  \/ \E g \in Gens : GenInsertFail(g)
  \/ \E g \in Gens : GenCommitInsert(g)
  \/ \E g \in Gens : GenClose(g)
  \/ \E g \in Gens : GenFail(g)
  \/ \E a \in Aggs : AnStart(a)
  \/ \E a \in Aggs : AnCheckTable(a)
  \/ \E a \in Aggs : AnQuerySensorIds(a)
  \/ \E a \in Aggs : AnQueryStats(a)
  \/ \E a \in Aggs : AnFinish(a)
  \/ \E a \in Aggs : AnFail(a)

Spec == Init /\ [][Next]_vars


\* ----------------------------------------------- generator invocations alone
NextGen ==
  \/ \E g \in Gens : GenStart(g)
  \/ \E g \in Gens : GenConnect(g)
  \/ \E g \in Gens : GenCheckTable(g)
  \/ \E g \in Gens : GenCreateTable(g)
  \/ \E g \in Gens : GenCommitCreate(g)
  \/ \E g \in Gens : GenEnableTracking(g)
  \/ \E g \in Gens : GenCommitEnable(g)
  \/ \E g \in Gens : GenInsert(g)
  \/ \E g \in Gens : GenInsertFail(g)
  \/ \E g \in Gens : GenCommitInsert(g)
  \/ \E g \in Gens : GenClose(g)
  \/ \E g \in Gens : GenFail(g)

SpecGen == Init /\ [][NextGen]_vars

\* ------------------------- aggregator invocations over a fixed table content
\* the table after invocations with the given draws committed one after another
RECURSIVE StoredTable(_)
StoredTable(seeds) ==
  IF seeds = <<>> THEN <<>>
  ELSE LET before == StoredTable(SubSeq(seeds, 1, Len(seeds) - 1))
       IN CommitBatch(before,
            InsertAll(GenerateReadings(seeds[Len(seeds)]), num_sensors, Len(before) + 1))

StoredSeeds == UNION {[1..n -> 0..MaxStoredSeed] : n \in 0..MaxBatches}

\* the store as earlier, finished generator invocations left it; no generator
\* invocation runs while the aggregator does
InitStored ==
  /\ \E seeds \in StoredSeeds :
       /\ rows = StoredTable(seeds)
       /\ nextId = Len(seeds) * num_sensors + 1
       /\ tbl \in (IF seeds = <<>> THEN {"NonExistent", "Created", "TrackingEnabled"}
                   ELSE {"Created", "TrackingEnabled"})
  /\ gpc = [g \in Gens |-> "idle"]
  /\ readings = [g \in Gens |-> <<>>]
  /\ pending = [g \in Gens |-> <<>>]
  /\ gconn = [g \in Gens |-> "none"]
  /\ gops = [g \in Gens |-> [o \in GenOps |-> 0]]
  /\ gerr = [g \in Gens |-> "none"]
  /\ overlapped = FALSE
  /\ missed = <<>>
  /\ apc = [a \in Aggs |-> "idle"]
  /\ sensors_in_use = [a \in Aggs |-> <<>>]
  /\ stats = [a \in Aggs |-> <<>>]
  /\ qi = [a \in Aggs |-> <<1, 1>>]
  /\ aconn = [a \in Aggs |-> "none"]
  /\ asked = [a \in Aggs |-> {}]
  /\ report = [a \in Aggs |-> <<>>]

NextAggregate ==
  \/ \E a \in Aggs : AnStart(a)
  \/ \E a \in Aggs : AnCheckTable(a)
  \/ \E a \in Aggs : AnQuerySensorIds(a)
  \/ \E a \in Aggs : AnQueryStats(a)
  \/ \E a \in Aggs : AnFinish(a)
  \/ \E a \in Aggs : AnFail(a)

SpecAggregate == InitStored /\ [][NextAggregate]_vars


\* ================================================================== claims
Sum(f, S) == LET RECURSIVE Acc(_)
                 Acc(T) == IF T = {} THEN 0
                           ELSE LET x == CHOOSE y \in T : TRUE IN f[x] + Acc(T \ {x})
             IN Acc(S)

\* a generator invocation that holds its list `readings`
HasReadings(g) ==
  gpc[g] \in {"generated", "connected", "create", "commit_create", "enable",
              "commit_enable", "insert", "commit_insert", "close"}

\* C1: every batch a generator invocation builds has exactly 20 readings, the
\* sensor ids 0..19 once each, and temp in 8..15, wind_speed in 15..25,
\* rel_humidity in 40..70, co2 in 500..1500, whatever the draws.
C1_BatchShape ==
  \A g \in Gens : HasReadings(g) =>
    /\ Len(readings[g]) = 20
    /\ \A i \in 0..19 :
         Cardinality({j \in 1..Len(readings[g]) : readings[g][j].sensor_id = i}) = 1
    /\ \A j \in 1..Len(readings[g]) :
         /\ readings[g][j].sensor_id \in 0..19
         /\ readings[g][j].temp \in 8..15
         /\ readings[g][j].wind_speed \in 15..25
         /\ readings[g][j].rel_humidity \in 40..70
         /\ readings[g][j].co2 \in 500..1500

\* a batch whose draws reached the upper limits exists next to one that
\* reached the lower limits
C1_Witness ==
  /\ \E g \in Gens : HasReadings(g) /\ readings[g][1].temp = 15
                     /\ readings[g][20].co2 = 1500
  /\ \E g \in Gens : HasReadings(g) /\ readings[g][1].temp = 8
                     /\ readings[g][20].co2 = 500

\* generator invocation h ran wholly after invocation g completed
PastCheck(h) == gpc[h] \notin {"idle", "generated", "connected"}

\* C2: two runs in sequence on a fresh store: the first creates the table and
\* enables tracking, the second issues no CREATE TABLE and no ENABLE
\* CHANGE_TRACKING, and the table stays in state TrackingEnabled.
C2_EnsureIdempotent ==
  \A h \in Gens :
    (/\ ~overlapped
     /\ h > 1
     /\ \A g \in Gens : g < h => gpc[g] = "done"
     /\ PastCheck(h))
    => /\ gops[1]["create"] = 1 /\ gops[1]["commit_create"] = 1
       /\ gops[1]["enable"] = 1 /\ gops[1]["commit_enable"] = 1
       /\ gops[h]["create"] = 0 /\ gops[h]["commit_create"] = 0
       /\ gops[h]["enable"] = 0 /\ gops[h]["commit_enable"] = 0
       /\ tbl = "TrackingEnabled"

C2_Witness ==
  /\ ~overlapped
  /\ gpc[1] = "done" /\ gpc[2] = "done"
  /\ missed = <<1>>
  /\ tbl = "TrackingEnabled"

\* C3: an invocation whose CREATE TABLE or ENABLE CHANGE_TRACKING meets an
\* object that already exists does not fail on that account.
C3_RaceTolerated == \A g \in Gens : gerr[g] # "already_exists"

Total(o) == Sum([g \in Gens |-> gops[g][o]], Gens)

\* C4 as stated: CREATE TABLE and ENABLE CHANGE_TRACKING are each executed at
\* most once in total, and only by the first invocation that found the table
\* missing.
C4_ExecutedOnce ==
  /\ Total("create") <= 1
  /\ Total("enable") <= 1
  /\ \A g \in Gens : (gops[g]["create"] > 0 \/ gops[g]["enable"] > 0)
                     => (missed # <<>> /\ missed[1] = g)

\* C4 amended: CREATE TABLE and ENABLE CHANGE_TRACKING are each committed at
\* most once in total, are executed only by invocations that found the table
\* missing, and tracking is enabled only by the invocation that committed the
\* CREATE TABLE.
C4_CommittedOnce ==
  /\ Total("commit_create") <= 1
  /\ Total("commit_enable") <= 1
  /\ \A g \in Gens :
       /\ (gops[g]["create"] > 0 \/ gops[g]["enable"] > 0)
            => \E j \in 1..Len(missed) : missed[j] = g
       /\ gops[g]["enable"] > 0 => gops[g]["commit_create"] = 1

\* two invocations found the table missing, one committed its CREATE TABLE and
\* the other one executed CREATE TABLE as well
C4_Witness ==
  /\ Len(missed) = 2
  /\ Total("create") = 2
  /\ Total("commit_create") = 1
  /\ Total("commit_enable") = 1

RowsOf(i) == {j \in 1..Len(rows) : rows[j].sensor_id = i}

WholeBatches ==
  /\ Len(rows) % 20 = 0
  /\ \A i \in 0..19 : Cardinality(RowsOf(i)) * 20 = Len(rows)

GenEnds(g) == gpc[g] # "failed" /\ gpc'[g] = "failed"

\* C5: a generator invocation that ends before its final commit leaves the
\* committed rows as they were, so the committed table always holds whole
\* batches: a multiple of 20 rows, the same number for every sensor id.
C5_BatchAtomic ==
  /\ []WholeBatches
  /\ [][(\E g \in Gens : GenEnds(g)) => rows' = rows]_vars

\* an invocation failed inside its insert loop after an earlier batch was
\* committed
C5_Witness ==
  /\ \E g \in Gens : gpc[g] = "failed" /\ gerr[g] = "insert_error"
  /\ Len(rows) = 20

Done == {g \in Gens : gpc[g] = "done"}

\* C6: after k invocations ran to completion one after another on a fresh
\* store, the first one alone created the table and the table holds exactly
\* 20 * k rows: ids 1..20k in order, k rows for every sensor id.
C6_SequentialRuns ==
  (~overlapped /\ \A g \in Gens : gpc[g] \in {"idle", "done"})
  => /\ Len(rows) = 20 * Cardinality(Done)
     /\ \A j \in 1..Len(rows) :
          rows[j].id = j /\ rows[j].sensor_id = (j - 1) % 20
     /\ \A g \in Done :
          /\ gops[g]["commit_create"] = (IF g = 1 THEN 1 ELSE 0)
          /\ gops[g]["create"] = (IF g = 1 THEN 1 ELSE 0)

C6_Witness ==
  /\ ~overlapped
  /\ gpc[1] = "done" /\ gpc[2] = "done"
  /\ Len(rows) = 40
  /\ rows[1] # rows[21]


\* C7: the table lifecycle only moves NonExistent -> Created ->
\* TrackingEnabled: no step of any invocation takes the table back, and
\* TrackingEnabled is entered from Created only.
C7_LifecycleForward ==
  [][\/ tbl' = tbl
     \/ tbl = "NonExistent" /\ tbl' = "Created"
     \/ tbl = "Created" /\ tbl' = "TrackingEnabled"]_vars

\* the table went through both transitions while an aggregator invocation ran
\* and a generator invocation failed
C7_Witness ==
  /\ tbl = "TrackingEnabled"
  /\ Total("commit_create") = 1 /\ Total("commit_enable") = 1
  /\ \E g \in Gens : gpc[g] = "failed"
  /\ \E a \in Aggs : apc[a] = "stats"

\* the aggregator invocation a runs its table check in this step
AnChecks(a) == "tables" \notin asked[a] /\ "tables" \in asked'[a]

\* C8: an aggregator invocation whose table check finds no table issues no
\* sensor-id query and no aggregate query, logs no stats, closes its
\* connection and returns; it does not fail.
C8_AbsentTableNoop ==
  [][\A a \in Aggs :
       (AnChecks(a) /\ tbl = "NonExistent")
       => /\ apc'[a] = "done"
          /\ aconn'[a] = "closed"
          /\ asked'[a] = {"tables"}
          /\ report'[a] = <<>>
          /\ stats'[a] = <<>>]_vars

\* an aggregator invocation returned early on a missing table, before the
\* first generator invocation created it
C8_Witness ==
  /\ \E a \in Aggs : /\ apc[a] = "done" /\ asked[a] = {"tables"}
                     /\ aconn[a] = "closed"
                     /\ report[a] = <<>>
  /\ tbl = "NonExistent"
  /\ \E g \in Gens : gpc[g] = "create"

\* the values stored for sensor i and data point d
Stored(i, d) == {rows[j][d] : j \in RowsOf(i)}

\* the stats entries an aggregator invocation holds
Entries(a) == {<<i, d>> \in (0..19) \X {"temp", "wind_speed", "rel_humidity", "co2"} :
                 i \in DOMAIN stats[a] /\ d \in DOMAIN stats[a][i]}

\* C9: over a fixed table content, every aggregate computed for a sensor with
\* rows has min <= average <= max, min the smallest and max the largest value
\* stored for that sensor and data point, whatever rows other sensors have.
C9_MinAvgMax ==
  \A a \in Aggs : \A e \in Entries(a) :
    LET r == stats[a][e[1]][e[2]]
        S == Stored(e[1], e[2])
    IN /\ S # {}
       /\ r.min <= r.average /\ r.average <= r.max
       /\ r.min \in S /\ r.max \in S
       /\ \A v \in S : r.min <= v /\ v <= r.max

\* an aggregator invocation logged stats over a table in which sensors differ
\* and a sensor's minimum is not its maximum
C9_Witness ==
  \E a \in Aggs :
    /\ report[a] # <<>>
    /\ Cardinality(Entries(a)) = 80
    /\ stats[a][3]["temp"].min < stats[a][3]["temp"].max
    /\ stats[a][3]["temp"].min # stats[a][4]["temp"].min

\* the values of data point d stored for sensor i, in insertion order
StoredSeq(i, d) ==
  LET sel == SelectSeq(rows, LAMBDA r : r.sensor_id = i)
  IN [j \in 1..Len(sel) |-> sel[j][d]]

\* C10: over a fixed table content, the average reported for a sensor and data
\* point is the sum of the stored values divided by their number, truncated
\* to an integer; temp values 8, 15, 10 of sensor 3 give min 8, max 15,
\* average 11.
C10_AverageTruncates ==
  \A a \in Aggs : \A e \in Entries(a) :
    LET r == stats[a][e[1]][e[2]]
        col == StoredSeq(e[1], e[2])
    IN /\ r.average * Len(col) <= SeqSum(col)
       /\ SeqSum(col) < (r.average + 1) * Len(col)
       /\ (e = <<3, "temp">> /\ col = <<8, 15, 10>>)
            => r = [min |-> 8, max |-> 15, average |-> 11]

\* the aggregate of sensor 3's temp values 8, 15, 10 was computed, and one
\* whose exact average is no integer
C10_Witness ==
  \E a \in Aggs :
    /\ <<3, "temp">> \in Entries(a)
    /\ StoredSeq(3, "temp") = <<8, 15, 10>>
    /\ stats[a][3]["temp"].average = 11
    /\ <<0, "temp">> \in Entries(a)
    /\ SeqSum(StoredSeq(0, "temp")) % 3 # 0

\* the sensor ids that have at least one row in the table
SensorsWithRows == {rows[j].sensor_id : j \in 1..Len(rows)}

Metrics == {"temp", "wind_speed", "rel_humidity", "co2"}

Ascending(s) == \A j \in 1..Len(s) - 1 : s[j] < s[j + 1]

Prefixes(s) == {{s[j] : j \in 1..k} : k \in 0..Len(s)}

\* C11: when the table exists, the sensors an aggregator invocation reports on
\* are exactly the sensor ids with at least one row, each once, visited in
\* ascending order; the emitted report has, for each such sensor and no
\* other, exactly the metrics temp, wind_speed, rel_humidity and co2, each
\* with exactly the fields min, max and average.
C11_SensorsReported ==
  \A a \in Aggs :
    /\ ("ids" \in asked[a] /\ apc[a] # "failed") =>
         /\ Ascending(sensors_in_use[a])
         /\ {sensors_in_use[a][j] : j \in 1..Len(sensors_in_use[a])} = SensorsWithRows
         /\ DOMAIN stats[a] \in Prefixes(sensors_in_use[a])
    /\ report[a] # <<>> =>
         /\ DOMAIN report[a][1] = SensorsWithRows
         /\ \A i \in DOMAIN report[a][1] :
              /\ DOMAIN report[a][1][i] = Metrics
              /\ \A d \in Metrics :
                   DOMAIN report[a][1][i][d] = {"min", "max", "average"}

\* a report over a table of three batches was emitted, on the sensors 0..19
C11_Witness ==
  \E a \in Aggs :
    /\ report[a] # <<>>
    /\ Len(rows) = 3 * num_sensors
    /\ DOMAIN report[a][1] = 0..19
    /\ sensors_in_use[a][1] = 0 /\ sensors_in_use[a][20] = 19

\* C12: every invocation of either function that opened a store connection
\* has closed it when the invocation has ended, on every exit path: normal
\* completion, the table-absent early return, and an error raised by a store
\* operation.
C12_ConnectionClosed ==
  /\ \A g \in Gens :
       (gpc[g] \in {"done", "failed"} /\ gconn[g] # "none") => gconn[g] = "closed"
  /\ \A a \in Aggs :
       (apc[a] \in {"done", "failed"} /\ aconn[a] # "none") => aconn[a] = "closed"

\* C13: an aggregator invocation that failed has emitted no report, and a
\* report is emitted only by an invocation that completed, holding an entry
\* for every sensor of sensors_in_use and every one of the four metrics.
C13_NoPartialReport ==
  \A a \in Aggs :
    /\ apc[a] = "failed" => report[a] = <<>>
    /\ report[a] # <<>> =>
         /\ apc[a] = "done"
         /\ \A j \in 1..Len(sensors_in_use[a]) : \A d \in Metrics :
              /\ sensors_in_use[a][j] \in DOMAIN report[a][1]
              /\ d \in DOMAIN report[a][1][sensors_in_use[a][j]]

\* over a table with rows, the sensor-id query of an invocation raised (only
\* the table check had been answered): the invocation failed without a report
C13_Witness ==
  \E a \in Aggs :
    /\ apc[a] = "failed"
    /\ asked[a] = {"tables"}
    /\ Len(rows) > 0
    /\ report[a] = <<>>

IsPrefix(s, t) == Len(s) <= Len(t) /\ SubSeq(t, 1, Len(s)) = s

\* C14: in every interleaving, every step keeps the committed rows as they
\* are and at most appends to them, and a step of an aggregator invocation
\* leaves the rows, the table's existence and its tracking state unchanged.
C14_ReadingsImmutable ==
  [][/\ IsPrefix(rows, rows')
     /\ (avars' # avars) => (rows' = rows /\ tbl' = tbl /\ nextId' = nextId)]_vars

\* two batches are committed and an aggregator invocation ran to its final
\* commit and emitted its report
C14_Witness ==
  /\ Len(rows) = 2 * num_sensors
  /\ \E a \in Aggs : apc[a] = "done" /\ report[a] # <<>>

\* C15: whenever a generator invocation is in its insert loop or at the
\* commit after it, the table exists (Created or TrackingEnabled).
C15_InsertIntoExistingTable ==
  \A g \in Gens :
    gpc[g] \in {"insert", "commit_insert"} => tbl \in {"Created", "TrackingEnabled"}

\* an invocation that created the table itself has executed its inserts, and
\* so has one that found the table present
C15_Witness ==
  /\ \E g \in Gens : gpc[g] = "commit_insert" /\ gops[g]["commit_enable"] = 1
  /\ \E g \in Gens : gpc[g] = "commit_insert" /\ gops[g]["create"] = 0

NoNull(r) == r.min # Null /\ r.max # Null /\ r.average # Null

\* C16: under any interleaving with generator invocations, every aggregate
\* query is issued for a sensor that has rows at the time of the query, no
\* min, max or average held or emitted is null, and an invocation whose
\* sensor-id query finds the existing table without rows issues no aggregate
\* query and emits a report without sensors.
C16_NoNullAggregate ==
  /\ [](\A a \in Aggs :
          /\ \A e \in Entries(a) : NoNull(stats[a][e[1]][e[2]])
          /\ report[a] # <<>> =>
               /\ \A i \in DOMAIN report[a][1] : \A d \in DOMAIN report[a][1][i] :
                    NoNull(report[a][1][i][d])
               /\ "aggregate" \notin asked[a] => DOMAIN report[a][1] = {})
  /\ [][\A a \in Aggs :
          /\ (apc[a] = "stats" /\ stats'[a] # stats[a] /\ apc'[a] # "failed")
               => RowsOf(sensors_in_use[a][qi[a][1]]) # {}
          /\ (apc[a] = "ids" /\ apc'[a] \notin {"ids", "failed"} /\ rows = <<>>)
               => (apc'[a] = "commit" /\ sensors_in_use'[a] = <<>>)]_vars

\* a report was emitted whose first sensor was aggregated over one batch and
\* whose last sensor over two: a batch was committed between the queries
C16_Witness ==
  \E a \in Aggs :
    /\ report[a] # <<>>
    /\ DOMAIN report[a][1] = 0..19
    /\ report[a][1][0]["temp"].max # report[a][1][19]["temp"].max

\* the positions of an invocation in program order
GenOrder == <<"idle", "generated", "connected", "create", "commit_create", "enable",
              "commit_enable", "insert", "commit_insert", "close", "done", "failed">>

AnOrder == <<"idle", "connected", "ids", "stats", "commit", "done", "failed">>

Rank(order, pc) == CHOOSE k \in 1..Len(order) : order[k] = pc

\* C17: no store operation is attempted twice within an invocation: every
\* step moves one invocation forward in program order (the aggregator's loop
\* to the next sensor or data point), never back to an operation already
\* attempted; an error ends the invocation as failed, and an invocation that
\* has ended takes no further step.
C17_NoRetry ==
  [][/\ (gpc' # gpc \/ apc' # apc \/ qi' # qi)
     /\ \A g \in Gens :
          /\ gpc'[g] # gpc[g] => Rank(GenOrder, gpc'[g]) > Rank(GenOrder, gpc[g])
          /\ gpc[g] \in {"done", "failed"} => gpc'[g] = gpc[g]
          /\ gerr'[g] # gerr[g] => gpc'[g] = "failed"
          /\ \A o \in GenOps : gops'[g][o] <= 1
     /\ \A a \in Aggs :
          /\ apc'[a] # apc[a] => Rank(AnOrder, apc'[a]) > Rank(AnOrder, apc[a])
          /\ apc[a] \in {"done", "failed"} => apc'[a] = apc[a]
          /\ (apc[a] = "stats" /\ apc'[a] = "stats" /\ qi'[a] # qi[a])
               => (\/ qi'[a][1] > qi[a][1]
                   \/ (qi'[a][1] = qi[a][1] /\ qi'[a][2] > qi[a][2]))]_vars

\* a generator invocation ended at a raising insert and an aggregator
\* invocation ended at a raising aggregate query or commit
C17_Witness ==
  /\ \E g \in Gens : gpc[g] = "failed" /\ gerr[g] = "insert_error"
  /\ \E a \in Aggs : apc[a] = "failed" /\ "aggregate" \in asked[a]

\* C18: whenever the table holds at least one committed reading it is
\* TrackingEnabled, also after an invocation ended between the CREATE TABLE
\* commit and the ENABLE CHANGE_TRACKING commit.
C18_TrackedWhenRows == Len(rows) > 0 => tbl = "TrackingEnabled"

\* the report of steps 2 and 3 of the aggregator computed over one table content
FullReport(table) ==
  [i \in {table[j].sensor_id : j \in 1..Len(table)} |->
     [d \in Metrics |-> query_aggregate(table, i, d)]]

\* the committed contents the table has had so far: batches are appended whole
CommittedStates == {SubSeq(rows, 1, k * num_sensors) : k \in 0..(Len(rows) \div num_sensors)}

\* C19: every emitted report equals the report computed over one single
\* committed content of the table, also when generator invocations commit
\* batches between the aggregator's queries.
C19_SingleSnapshot ==
  \A a \in Aggs :
    report[a] # <<>> => \E table \in CommittedStates : report[a][1] = FullReport(table)


====
